---- MODULE Spec2Model ----
(***************************************************************************)
(* Model of occ_memo_daily_slack.py: the listing parser, the field         *)
(* extractor, the event classifier and the run of main().                  *)
(*                                                                         *)
(* Representation.                                                         *)
(*   - a Python str is a sequence of one-character strings;                *)
(*   - Optional[x] is a sequence of length 0 (None) or 1 (<<x>>);          *)
(*   - a date string is a record [form, a, b, y]: form "name" is           *)
(*     "<month name a> b, y", form "slash" is "a/b/y";                     *)
(*   - an ISO date "YYYY-MM-DD" is the triple <<y, m, d>>;                 *)
(*   - a document text is the record of what each module-level pattern     *)
(*     finds in it (re.search(...).group(1), or no match);                 *)
(*   - the listing page is the sequence of its <a href> elements, each     *)
(*     with the date-shaped tokens found before it.                        *)
(* fetch_search_html and fetch_pdf_text are the network collaborators: a   *)
(* run takes what they return (a page, a text, or an exception) as input.  *)
(* As written, line 74 of fetch_search_html names a variable url that is   *)
(* defined nowhere, so the call of line 226 raises on every run            *)
(* (FetchFailed). The other actions describe main() from line 227 on,      *)
(* given the page the request of line 73 returned.                         *)
(***************************************************************************)
EXTENDS Integers, Sequences, FiniteSets, TLC

VARIABLES
    stateFile,   \* content of args.state: None (no file) or <<text>>
    reports,     \* per identifier, the runs that wrote and printed it (0, 1, many)
    pc,          \* position of main(), or of the function under check
    args,        \* argparse namespace of the current run
    today,       \* dt.datetime.now().date() of the current run
    html,        \* the listing page of the current run
    listing,     \* parse_search_listing(html)
    last_n,      \* watermark read at run start (watermark mode)
    picked,      \* candidates selected for enrichment
    idx,         \* position of the enrichment loop in picked
    results,     \* rows appended by the enrichment loop
    df,          \* the final frame (rows written and reported)
    file0,       \* history: stateFile when the current run started
    prev,        \* history: how the run before ended, when this run repeats it
    fn_in,       \* argument of the function under check
    fn_out       \* its result

vars == <<stateFile, reports, pc, args, today, html, listing, last_n, picked,
          idx, results, df, file0, prev, fn_in, fn_out>>

runVars == <<stateFile, reports, args, today, html, listing, last_n, picked,
             idx, results, df, file0, prev>>

(* ------------------------------ bounds --------------------------------- *)

\* Identifiers of memos are 1..MaxId.
MaxId == 3

\* A listing page of a run of main() has at most MaxLinks memo links.
MaxLinks == 2

\* A listing page handed to parse_search_listing alone has at most
\* MaxParseLinks memo links.
MaxParseLinks == 3

(* ------------------------------ Optional ------------------------------- *)

None == <<>>

Some(x) == <<x>>

\* Python's "a or b" on Optional[str]: None and "" are both falsy.
Truthy(o) == o # <<>> /\ o[1] # <<>>

OrElse(a, b) == IF Truthy(a) THEN a ELSE b

(* ------------------------------ strings -------------------------------- *)

UpperLetters == <<"A","B","C","D","E","F","G","H","I","J","K","L","M",
                  "N","O","P","Q","R","S","T","U","V","W","X","Y","Z">>

LowerLetters == <<"a","b","c","d","e","f","g","h","i","j","k","l","m",
                  "n","o","p","q","r","s","t","u","v","w","x","y","z">>

DigitChars == <<"0","1","2","3","4","5","6","7","8","9">>

Range(s) == {s[i] : i \in DOMAIN s}

LowerChar(c) ==
    IF c \in Range(UpperLetters)
    THEN LowerLetters[CHOOSE i \in DOMAIN UpperLetters : UpperLetters[i] = c]
    ELSE c

\* str.lower()
Lower(s) == [i \in 1..Len(s) |-> LowerChar(s[i])]

\* "sub in s"
Contains(sub, s) ==
    \E i \in 1..(Len(s) - Len(sub) + 1) :
        \A j \in 1..Len(sub) : s[i + j - 1] = sub[j]

IsDigit(c) == c \in Range(DigitChars)

IsSpace(c) == c \in {" ", "\t", "\n"}

\* \w of the re module
IsWordChar(c) ==
    c \in Range(DigitChars) \cup Range(LowerLetters) \cup Range(UpperLetters) \cup {"_"}

\* \b at the gap before position i (1..Len(t)+1)
WordBoundary(t, i) ==
    LET before == i > 1 /\ IsWordChar(t[i-1])
        after  == i <= Len(t) /\ IsWordChar(t[i])
    IN before # after

AllDigits(t, i, j) == \A k \in i..j : IsDigit(t[k])

AllSpaces(t, i, j) == \A k \in i..j : IsSpace(t[k])

\* re.search(r"\b\d+\s*for\s*\d+\b", t): "for" at k..k+2, before it digits
\* i..j that start at a word boundary and whitespace j+1..k-1, after it
\* whitespace k+3..l-1 and digits l..m that end at a word boundary
RatioPattern(t) ==
    \E k \in 2..(Len(t) - 3) :
        /\ t[k] = "f" /\ t[k+1] = "o" /\ t[k+2] = "r"
        /\ \E j \in 1..(k-1) :
              /\ AllSpaces(t, j+1, k-1)
              /\ \E i \in 1..j : AllDigits(t, i, j) /\ WordBoundary(t, i)
        /\ \E l \in (k+3)..Len(t) :
              /\ AllSpaces(t, k+3, l-1)
              /\ \E m \in l..Len(t) : AllDigits(t, l, m) /\ WordBoundary(t, m+1)

\* str(n) for n >= 0
RECURSIVE Str(_)
Str(n) == IF n < 10 THEN <<DigitChars[n+1]>>
          ELSE Str(n \div 10) \o <<DigitChars[(n % 10) + 1]>>

DigitValue(c) == (CHOOSE i \in DOMAIN DigitChars : DigitChars[i] = c) - 1

RECURSIVE DecimalValue(_)
DecimalValue(s) ==
    IF s = <<>> THEN 0
    ELSE 10 * DecimalValue(SubSeq(s, 1, Len(s) - 1)) + DigitValue(s[Len(s)])

\* int(text): Some(value), or None where int() raises ValueError
ParseInt(s) ==
    IF s # <<>> /\ \A i \in DOMAIN s : IsDigit(s[i])
    THEN Some(DecimalValue(s)) ELSE None

(* ------------------------------- dates --------------------------------- *)

IsLeap(y) == y % 4 = 0 /\ (y % 100 # 0 \/ y % 400 = 0)

DaysInMonth(m, y) ==
    IF m = 2 THEN (IF IsLeap(y) THEN 29 ELSE 28)
    ELSE IF m \in {4, 6, 9, 11} THEN 30 ELSE 31

ValidDate(y, m, d) == m \in 1..12 /\ d >= 1 /\ d <= DaysInMonth(m, y)

\* dateutil's resolution of the three numbers of a date string (month name first:
\* month, day, year; all numeric: month first, day first when the first number
\* cannot be a month), then datetime's validation; strftime("%Y-%m-%d").
\* None where dateutil raises. The strings are those the patterns of lines
\* 43-45 and 103 capture with an English month name or numbers of one or two
\* digits, and a year of four.
to_iso(ds) ==
    LET dayFirst == ds.form = "slash" /\ ds.a > 12
        m == IF dayFirst THEN ds.b ELSE ds.a
        d == IF dayFirst THEN ds.a ELSE ds.b
    IN IF ds.a <= 31 /\ ds.b <= 31 /\ ValidDate(ds.y, m, d)
       THEN Some(<<ds.y, m, d>>) ELSE None

RECURSIVE DaysBeforeMonth(_, _)
DaysBeforeMonth(m, y) ==
    IF m = 1 THEN 0 ELSE DaysBeforeMonth(m - 1, y) + DaysInMonth(m - 1, y)

\* the days of the years before y (date.toordinal)
DaysBeforeYear(y) ==
    365 * (y - 1) + ((y - 1) \div 4) - ((y - 1) \div 100) + ((y - 1) \div 400)

\* dt.date.fromisoformat(iso), as a day number (dates compare and subtract
\* as their day numbers)
fromisoformat(iso) == DaysBeforeYear(iso[1]) + DaysBeforeMonth(iso[2], iso[1]) + iso[3]

(* --------------------------- classify_event ---------------------------- *)

K_reverse_split == <<"r","e","v","e","r","s","e"," ","s","p","l","i","t">>
K_stock_split == <<"s","t","o","c","k"," ","s","p","l","i","t">>
K_split_sp == <<"s","p","l","i","t"," ">>
K_name_symbol_change == <<"n","a","m","e","/","s","y","m","b","o","l"," ","c","h","a","n","g","e">>
K_symbol_change == <<"s","y","m","b","o","l"," ","c","h","a","n","g","e">>
K_name_change == <<"n","a","m","e"," ","c","h","a","n","g","e">>
K_merger == <<"m","e","r","g","e","r">>
K_combination == <<"c","o","m","b","i","n","a","t","i","o","n">>
K_acquisition == <<"a","c","q","u","i","s","i","t","i","o","n">>
K_tender_offer == <<"t","e","n","d","e","r"," ","o","f","f","e","r">>
K_liquidation == <<"l","i","q","u","i","d","a","t","i","o","n">>
K_reverse == <<"r","e","v","e","r","s","e">>
K_split == <<"s","p","l","i","t">>
K_name == <<"n","a","m","e">>
K_symbol == <<"s","y","m","b","o","l">>

\* the dict, in insertion order
EVENT_KEYWORDS == <<
    [label |-> "reverse split",      keys |-> <<K_reverse_split>>],
    [label |-> "split",              keys |-> <<K_stock_split, K_split_sp>>],
    [label |-> "name/symbol change", keys |-> <<K_name_symbol_change, K_symbol_change, K_name_change>>],
    [label |-> "merger",             keys |-> <<K_merger, K_combination, K_acquisition>>],
    [label |-> "tender",             keys |-> <<K_tender_offer>>],
    [label |-> "liquidation",        keys |-> <<K_liquidation>>] >>

SetMin(S) == CHOOSE x \in S : \A y \in S : x <= y

SetMax(S) == CHOOSE x \in S : \A y \in S : x >= y

\* (title + " " + (subject or "")).lower()
EventText(title, subject) ==
    Lower(title \o <<" ">> \o (IF Truthy(subject) THEN subject[1] ELSE <<>>))

classify_event(title, subject) ==
    LET text == EventText(title, subject)
        hits == {i \in DOMAIN EVENT_KEYWORDS :
                    \E k \in DOMAIN EVENT_KEYWORDS[i].keys :
                        Contains(EVENT_KEYWORDS[i].keys[k], text)}
    IN IF hits # {} THEN Some(EVENT_KEYWORDS[SetMin(hits)].label)
       ELSE IF Contains(K_reverse, text) /\ Contains(K_split, text)
            THEN Some("reverse split")
       ELSE IF Contains(K_stock_split, text) \/ RatioPattern(text)
            THEN Some("split")
       ELSE None

(* --------------------------- parse_pdf_fields -------------------------- *)

RECURSIVE LStrip(_)
LStrip(s) == IF s # <<>> /\ IsSpace(s[1]) THEN LStrip(Tail(s)) ELSE s

RECURSIVE RStrip(_)
RStrip(s) == IF s # <<>> /\ IsSpace(s[Len(s)])
             THEN RStrip(SubSeq(s, 1, Len(s) - 1)) ELSE s

\* str.strip()
Strip(s) == RStrip(LStrip(s))

\* "if m: x = m.group(1).strip()", x staying None without a match
Stripped(m) == IF m = None THEN None ELSE Some(Strip(m[1]))

\* Lines 156-166: the rules are the branches of an if/else chain, so a rule is
\* consulted only when the pattern of every earlier rule found no match.
EffectiveDateCascade(text) ==
    IF text.RE_EFFECTIVE_DATE_LINE # None
    THEN to_iso(text.RE_EFFECTIVE_DATE_LINE[1])
    ELSE IF text.RE_DATE_FIELD # None
         THEN to_iso(text.RE_DATE_FIELD[1])
         ELSE IF text.RE_MARKET_OPEN_LINE # None
              THEN to_iso(text.RE_MARKET_OPEN_LINE[1])
              ELSE None

\* text: for each pattern, group(1) of its search in the document (or None)
parse_pdf_fields(text) ==
    [subject        |-> Stripped(text.RE_SUBJECT),
     option_symbols |-> Stripped(text.RE_OPT_SYM),
     new_symbols    |-> IF text.RE_NEW_SYM # None THEN Stripped(text.RE_NEW_SYM)
                        ELSE IF text.RE_TITLED_NEW_SYM # None
                             THEN Stripped(text.RE_TITLED_NEW_SYM)
                             ELSE Stripped(text.RE_ADJUSTED_SYM),
     effective_date |-> EffectiveDateCascade(text)]

(* ------------------------- parse_search_listing ------------------------ *)

\* "while sib and cnt < 12"
SIBLING_LOOKBACK == 12

Reverse(s) == [i \in 1..Len(s) |-> s[Len(s) + 1 - i]]

IsNonEmptyText(t) == t.kind # "empty"

IsDateShaped(t) == t.kind = "date"

\* Lines 87-107. back: the previous siblings of the link's parent, nearest
\* first; each is a date-shaped text (with its date string), another text, or
\* an empty text.
ListingDates(back) ==
    LET texts_back == SubSeq(back, 1,
                         IF Len(back) < SIBLING_LOOKBACK THEN Len(back) ELSE SIBLING_LOOKBACK)
        candidates == Reverse(SelectSeq(texts_back, IsNonEmptyText))
        dates      == SelectSeq(candidates, IsDateShaped)
    IN [post_date      |-> IF Len(dates) >= 1 THEN to_iso(dates[1].ds) ELSE None,
        effective_date |-> IF Len(dates) >= 2 THEN to_iso(dates[2].ds) ELSE None]

MemoRow(num, title, url, post_date, effective_date) ==
    [memo_number |-> num, title |-> title, url |-> url,
     post_date |-> post_date, effective_date |-> effective_date,
     event_type |-> None, option_symbols |-> None, new_symbols |-> None,
     subject |-> None, details |-> None]

\* Lines 80-111: one row per link whose href holds a memo number
RECURSIVE ListingRows(_)
ListingRows(links) ==
    IF links = <<>> THEN <<>>
    ELSE LET a == Head(links)
             d == ListingDates(a.back)
         IN (IF a.number = None THEN <<>>
             ELSE <<MemoRow(a.number[1], Strip(a.text), a.href,
                            d.post_date, d.effective_date)>>)
            \o ListingRows(Tail(links))

\* lines 112-115 without the "not in" test: the last row of each memo number
Uniq_KeepLast(rows) ==
    SelectSeq([i \in DOMAIN rows |->
                  [row |-> rows[i],
                   first |-> \A j \in (i+1)..Len(rows) :
                                rows[j].memo_number # rows[i].memo_number]],
              LAMBDA e : e.first)

\* Lines 112-115: the first row of each memo number
Uniq(rows) ==
    SelectSeq([i \in DOMAIN rows |->
                  [row |-> rows[i],
                   first |-> \A j \in 1..(i-1) : rows[j].memo_number # rows[i].memo_number]],
              LAMBDA e : e.first)

\* sorted(..., key=lambda x: x.memo_number, reverse=True), of rows with
\* distinct memo numbers
RECURSIVE SortedDesc(_)
SortedDesc(S) ==
    IF S = {} THEN <<>>
    ELSE LET top == CHOOSE r \in S : \A q \in S : q.memo_number <= r.memo_number
         IN <<top>> \o SortedDesc(S \ {top})

\* links: the <a href> elements of the page, in document order
parse_search_listing(links) ==
    LET uniq == Uniq(ListingRows(links))
    IN SortedDesc({uniq[i].row : i \in DOMAIN uniq})

(* ------------------------------- main() -------------------------------- *)

\* " ".join(words)
RECURSIVE Join(_)
Join(words) ==
    IF words = <<>> THEN <<>>
    ELSE IF Len(words) = 1 THEN words[1]
    ELSE words[1] \o <<" ">> \o Join(Tail(words))

\* str.split(): the maximal runs of non-whitespace characters
RECURSIVE SplitFrom(_, _)
SplitFrom(s, word) ==
    IF s = <<>> THEN (IF word = <<>> THEN <<>> ELSE <<word>>)
    ELSE IF IsSpace(s[1])
         THEN (IF word = <<>> THEN <<>> ELSE <<word>>) \o SplitFrom(Tail(s), <<>>)
         ELSE SplitFrom(Tail(s), Append(word, s[1]))

Split(s) == SplitFrom(s, <<>>)

\* Lines 243-249: the watermark read at run start; 0 without a file, and 0
\* when int() raises on its content.
ReadWatermark(file) ==
    IF file = None THEN 0
    ELSE IF ParseInt(file[1]) = None THEN 0 ELSE ParseInt(file[1])[1]

\* the comparison of line 251 taken as >=
SelectByWatermark_AtLeast(rows, n) ==
    SelectSeq(rows, LAMBDA r : r.memo_number >= n)

\* Lines 250-252
SelectByWatermark(rows, n) ==
    SelectSeq(rows, LAMBDA r : r.memo_number > n)

\* Lines 233-241
SelectByPostDate(rows, now, days) ==
    SelectSeq(rows, LAMBDA r :
        /\ r.post_date # None
        /\ fromisoformat(r.post_date[1]) >= fromisoformat(now) - days)

\* Lines 232-252
Select(ns, rows, now, file) ==
    IF ns.since_posted_days # None
    THEN SelectByPostDate(rows, now, ns.since_posted_days[1])
    ELSE SelectByWatermark(rows, ReadWatermark(file))

\* Lines 263-268
Enriched(r, text) ==
    LET fields == parse_pdf_fields(text)
    IN [r EXCEPT !.subject        = fields.subject,
                 !.option_symbols = OrElse(fields.option_symbols, r.option_symbols),
                 !.new_symbols    = OrElse(fields.new_symbols, r.new_symbols),
                 !.effective_date = OrElse(fields.effective_date, r.effective_date),
                 !.event_type     = classify_event(r.title, fields.subject)]

\* Lines 259, 270-273: TRUE where the row is appended to results
IncludeKept(r, include) ==
    LET include_text == Lower(Join(include))
        hay == EventText(r.title, r.subject)
        kws == Split(include_text)
    IN include_text = <<>> \/ \E i \in DOMAIN kws : Contains(kws[i], hay)

\* Lines 279-289: the columns of the frame (details is not one of them)
FrameRow(r) ==
    [memo_number |-> r.memo_number, post_date |-> r.post_date,
     effective_date |-> r.effective_date, event_type |-> r.event_type,
     title |-> r.title, subject |-> r.subject,
     option_symbols |-> r.option_symbols, new_symbols |-> r.new_symbols,
     url |-> r.url]

Frame(rows) == [i \in DOMAIN rows |-> FrameRow(rows[i])]

\* getattr on the argparse namespace
GetAttr(ns, name) ==
    IF name \in DOMAIN ns THEN [raised |-> FALSE, value |-> ns[name]]
    ELSE [raised |-> TRUE, exc |-> "AttributeError"]

\* line 291 reading the option of line 216, args.exclude_past_effective
ExcludePastEffectiveTest_Reads(ns, df_empty) ==
    [raised |-> FALSE, value |-> ns.exclude_past_effective /\ ~df_empty]

\* Line 291, "args.exclude-past-effective and not df.empty": Python reads it as
\* (args.exclude - past - effective) and (not df.empty). The namespace has no
\* attribute exclude (line 216 defines exclude_past_effective), and past and
\* effective are names defined nowhere, so the test raises whatever args holds.
ExcludePastEffectiveTest(ns, df_empty) ==
    IF GetAttr(ns, "exclude").raised THEN GetAttr(ns, "exclude")
    ELSE [raised |-> TRUE, exc |-> "NameError"]

\* Lines 292-299
DropPastEffective(frame, now) ==
    SelectSeq(frame, LAMBDA r :
        \/ r.effective_date = None
        \/ fromisoformat(r.effective_date[1]) >= fromisoformat(now))

\* Line 302
SortFrame(frame) == SortedDesc(Range(frame))

\* Line 331
MaxNum(rows) ==
    IF rows = <<>> THEN 0 ELSE SetMax({rows[i].memo_number : i \in DOMAIN rows})

Ids(rows) == {rows[i].memo_number : i \in DOMAIN rows}

(* sample inputs of a run *)

T_merger == <<"M","e","r","g","e","r">>
T_plain == <<"M","e","m","o"," ">>
S_tender == <<"T","e","n","d","e","r"," ","O","f","f","e","r">>
S_sym == <<"X","Y"," ">>
CorruptText == <<"n","/","a">>

\* --include's default (line 215), and "--include" with no word
INCLUDE_DEFAULT == <<K_reverse, K_split, K_name, K_symbol, K_merger>>

Includes == {INCLUDE_DEFAULT, <<>>}

Now == <<2025, 6, 1>>

SlashDate(m, d, y) == [form |-> "slash", a |-> m, b |-> d, y |-> y]

NameDate(m, d, y) == [form |-> "name", a |-> m, b |-> d, y |-> y]

DateText(ds) == [kind |-> "date", ds |-> ds]

\* a merger memo posted today; a memo posted yesterday with an effective-date
\* hint a month back
LinkKinds == { [text |-> T_merger, back |-> <<DateText(SlashDate(6, 1, 2025))>>],
               [text |-> T_plain,
                back |-> <<DateText(SlashDate(5, 1, 2025)), [kind |-> "empty"],
                           DateText(SlashDate(5, 31, 2025))>>] }

Link(n, k) == [number |-> Some(n), text |-> k.text, href |-> "a", back |-> k.back]

RunLinks == {Link(n, k) : n \in 1..MaxId, k \in LinkKinds}

SeqsUpTo(S, n) == UNION {[1..k -> S] : k \in 0..n}

NoMatch == [RE_SUBJECT |-> None, RE_OPT_SYM |-> None, RE_NEW_SYM |-> None,
            RE_TITLED_NEW_SYM |-> None, RE_ADJUSTED_SYM |-> None,
            RE_EFFECTIVE_DATE_LINE |-> None, RE_DATE_FIELD |-> None,
            RE_MARKET_OPEN_LINE |-> None]

\* the text of a tender-offer memo effective tomorrow
RunTexts == { [NoMatch EXCEPT !.RE_SUBJECT = Some(S_tender),
                              !.RE_OPT_SYM = Some(S_sym),
                              !.RE_EFFECTIVE_DATE_LINE = Some(NameDate(6, 2, 2025))] }

Namespaces == [since_posted_days : {None, Some(0)}, include : Includes,
               exclude_past_effective : BOOLEAN]

\* the state file before the first run: none, one that is no number, or a
\* number written by an earlier run
StateFiles == {None, Some(CorruptText)} \cup {Some(Str(n)) : n \in 1..MaxId}

Blank == <<>>

NoLocals ==
    /\ args = Blank /\ today = Blank /\ html = Blank /\ listing = Blank
    /\ last_n = None /\ picked = Blank /\ idx = 0 /\ results = Blank
    /\ df = Blank /\ file0 = Blank /\ prev = "none"

InitRun ==
    /\ stateFile \in StateFiles
    /\ reports = [n \in 1..MaxId |-> 0]
    /\ pc = "idle"
    /\ NoLocals
    /\ fn_in = Blank /\ fn_out = Blank

RunOver == pc \in {"returned", "raised", "done"}

\* Lines 211-252: arguments, listing page, selection
Begin(ns, page) ==
    LET rows == parse_search_listing(page)
    IN /\ args' = ns
       /\ today' = Now
       /\ html' = page
       /\ listing' = rows
       /\ last_n' = IF ns.since_posted_days # None THEN None
                    ELSE Some(ReadWatermark(stateFile))
       /\ picked' = Select(ns, rows, Now, stateFile)
       /\ idx' = 1 /\ results' = <<>> /\ df' = Blank
       /\ file0' = stateFile
       /\ pc' = "selected"
       /\ UNCHANGED <<stateFile, reports, fn_in, fn_out>>

\* a run with any arguments on any page
StartRun ==
    /\ pc = "idle"
    /\ prev' = "none"
    /\ \E ns \in Namespaces : \E page \in SeqsUpTo(RunLinks, MaxLinks) :
          Begin(ns, page)

\* Lines 72-75, 226: the request raised (timeout, connection error), or
\* line 74 raised NameError; main() ends with the exception
FetchFailed ==
    /\ pc = "idle"
    /\ pc' = "aborted"
    /\ UNCHANGED <<runVars, fn_in, fn_out>>

\* the next run, with the arguments and the page of the run that just ended
Rerun ==
    /\ RunOver
    /\ prev' = pc
    /\ Begin(args, html)

\* main() is over: its locals are gone
Exit ==
    /\ RunOver \/ pc = "aborted"
    /\ pc' = "idle"
    /\ args' = Blank /\ today' = Blank /\ html' = Blank /\ listing' = Blank
    /\ last_n' = None /\ picked' = Blank /\ idx' = 0 /\ results' = Blank
    /\ df' = Blank /\ file0' = Blank /\ prev' = "none"
    /\ UNCHANGED <<stateFile, reports, fn_in, fn_out>>

\* Lines 254-256
ReturnNoNew ==
    /\ pc = "selected" /\ picked = <<>>
    /\ pc' = "returned"
    /\ UNCHANGED <<runVars, fn_in, fn_out>>

\* Lines 260-274, one candidate whose document was fetched and decoded
EnrichFetched ==
    /\ pc = "selected" /\ idx <= Len(picked)
    /\ \E text \in RunTexts :
        LET r == Enriched(picked[idx], text)
        IN /\ picked' = [picked EXCEPT ![idx] = r]
           /\ results' = IF IncludeKept(r, args.include)
                         THEN Append(results, r) ELSE results
    /\ idx' = idx + 1
    /\ UNCHANGED <<stateFile, reports, pc, args, today, html, listing, last_n,
                   df, file0, prev, fn_in, fn_out>>

\* Lines 260-262, 275-277, one candidate whose fetch_pdf_text raised
EnrichFailed ==
    /\ pc = "selected" /\ idx <= Len(picked)
    /\ LET r == [picked[idx] EXCEPT !.details = Some("parse_error")]
       IN /\ picked' = [picked EXCEPT ![idx] = r]
          /\ results' = Append(results, r)
    /\ idx' = idx + 1
    /\ UNCHANGED <<stateFile, reports, pc, args, today, html, listing, last_n,
                   df, file0, prev, fn_in, fn_out>>

\* one more run reported n (0, 1, many)
Reported(count) == IF count < 2 THEN count + 1 ELSE 2

\* Lines 279-343. The test of line 291 is evaluated before anything is
\* written, printed or persisted; when it raises, main() ends there with the
\* exception. A failed write of the state file (lines 332-336) leaves the
\* file as it was or, opened and truncated, empty.
Finish ==
    /\ pc = "selected" /\ picked # <<>> /\ idx > Len(picked)
    /\ LET frame == Frame(results)
           test  == ExcludePastEffectiveTest(args, frame = <<>>)
       IN IF test.raised
          THEN /\ pc' = "raised"
               /\ UNCHANGED <<runVars, fn_in, fn_out>>
          ELSE LET kept == IF test.value THEN DropPastEffective(frame, today)
                           ELSE frame
                   out  == IF kept = <<>> THEN kept ELSE SortFrame(kept)
               IN /\ df' = out
                  /\ reports' = [n \in 1..MaxId |->
                                   IF n \in Ids(out) THEN Reported(reports[n])
                                   ELSE reports[n]]
                  /\ stateFile' \in {Some(Str(MaxNum(listing))), stateFile, Some(<<>>)}
                  /\ pc' = "done"
                  /\ UNCHANGED <<args, today, html, listing, last_n, picked, idx,
                                 results, file0, prev, fn_in, fn_out>>

Next == FetchFailed \/ StartRun \/ Rerun \/ Exit \/ ReturnNoNew
           \/ EnrichFetched \/ EnrichFailed \/ Finish

Spec == InitRun /\ [][Next]_vars

(* ------------------- the functions checked on their own ----------------- *)

InitFn(inputs) ==
    /\ fn_in \in inputs
    /\ fn_out = Blank
    /\ pc = "call"
    /\ stateFile = None
    /\ reports = [n \in 1..MaxId |-> 0]
    /\ NoLocals

Return(value) ==
    /\ pc = "call"
    /\ fn_out' = value
    /\ pc' = "ret"
    /\ UNCHANGED <<runVars, fn_in>>

(* parse_search_listing *)

\* memo numbers of the pages handed to parse_search_listing alone
MaxParseId == 2

T_a == <<"M","e","m","o"," ","A">>
T_b == <<" ","M","e","m","o"," ","B"," ">>

\* a date-shaped text that is no date (02/30/2025) before a posting date; no text
ParseBacks == { <<DateText(SlashDate(6, 1, 2025)), DateText(SlashDate(2, 30, 2025))>>,
                <<>> }

ParseLinks == [number : {None} \cup {Some(n) : n \in 1..MaxParseId},
               text : {T_a, T_b}, href : {"a"}, back : ParseBacks]

CallParse == Return(parse_search_listing(fn_in))

SpecParse == InitFn(SeqsUpTo(ParseLinks, MaxParseLinks)) /\ [][CallParse]_vars

(* classify_event *)

\* a title of the check of classify_event has at most MaxWords phrases
MaxWords == 2

\* the title of the specification's example, its dash written "-"
T_ReverseStockSplit == <<"N","o","t","i","c","e"," ","o","f"," ","R","e","v","e","r","s","e"," ","S","t","o","c","k"," ","S","p","l","i","t"," ","-"," ","X","Y","Z">>
W_Reverse == <<"R","e","v","e","r","s","e">>
W_Stock == <<"S","t","o","c","k">>
W_Split == <<"S","p","l","i","t">>
W_Splits == <<"S","p","l","i","t","s">>
W_Merger == <<"M","e","r","g","e","r">>
W_Ratio == <<"2"," ","f","o","r"," ","1">>
W_TenderOffer == <<"T","e","n","d","e","r"," ","O","f","f","e","r">>
W_Adjustment == <<"A","d","j","u","s","t","m","e","n","t">>

Phrases == {W_Reverse, W_Stock, W_Split, W_Splits, W_Merger, W_Ratio,
            W_TenderOffer, W_Adjustment}

Titles == {Join(ws) : ws \in SeqsUpTo(Phrases, MaxWords) \ {<<>>}}
             \cup {T_ReverseStockSplit}

Subjects == {None, Some(W_TenderOffer), Some(W_Adjustment)}

CallClassify == Return(classify_event(fn_in.title, fn_in.subject))

SpecClassify == InitFn([title : Titles, subject : Subjects]) /\ [][CallClassify]_vars

(* parse_pdf_fields *)

\* what a date pattern captures: nothing, a date, or a text of the pattern's
\* shape that is no date (February 30)
NameCaptures == {None, Some(NameDate(6, 2, 2025)), Some(NameDate(2, 30, 2025))}

SlashCaptures == {None, Some(SlashDate(3, 4, 2025)), Some(SlashDate(2, 30, 2025))}

SymCaptures == {None, Some(S_sym)}

FieldTexts == [RE_SUBJECT : {None, Some(S_tender)}, RE_OPT_SYM : {None},
               RE_NEW_SYM : SymCaptures, RE_TITLED_NEW_SYM : SymCaptures,
               RE_ADJUSTED_SYM : SymCaptures,
               RE_EFFECTIVE_DATE_LINE : NameCaptures,
               RE_DATE_FIELD : SlashCaptures,
               RE_MARKET_OPEN_LINE : {None, Some(NameDate(5, 1, 2025)),
                                      Some(NameDate(2, 30, 2025))}]

CallFields == Return(parse_pdf_fields(fn_in))

SpecFields == InitFn(FieldTexts) /\ [][CallFields]_vars

(* ------------------------------- claims -------------------------------- *)

InRun == pc \in {"selected", "returned", "raised", "done"}

WatermarkMode == args.since_posted_days = None

\* the watermark a state file persists: the number it holds, 0 when there is
\* no file or it holds no number
Watermark(file) ==
    IF file # None /\ \E n \in 0..MaxId : file[1] = Str(n)
    THEN CHOOSE n \in 0..MaxId : file[1] = Str(n)
    ELSE 0

\* a row the past-effective exclusion leaves in the record set: the toggle is
\* unset, or the row has no effective date, or one on or after today
Due(r) ==
    ~ ( /\ args.exclude_past_effective
        /\ r.effective_date # None
        /\ fromisoformat(r.effective_date[1]) < fromisoformat(today) )

\* C1: in watermark mode, with W the watermark persisted when the run started
\* (0 without a readable number), the candidates selected for enrichment are
\* exactly the listing's candidates with identifier > W, each once, and every
\* record the run emits has an identifier > W.
C1_SelectedAboveWatermark ==
    (InRun /\ WatermarkMode) =>
        /\ last_n = Some(Watermark(file0))
        /\ Ids(picked) = {n \in Ids(listing) : n > Watermark(file0)}
        /\ Len(picked) = Cardinality(Ids(picked))
        /\ \A i \in DOMAIN df : df[i].memo_number > Watermark(file0)

\* a watermark-mode run with a watermark above 0 has selected some candidates
\* of the listing, left others, and enriched the selected ones
C1_Witness ==
    /\ pc = "selected" /\ WatermarkMode
    /\ Watermark(file0) > 0
    /\ picked # <<>> /\ idx > Len(picked)
    /\ Ids(listing) \ Ids(picked) # {}

\* C2: at the end of every run that parsed a listing, in either mode and
\* whatever was selected or survived the filters, the persisted watermark is
\* the largest identifier of the listing. Stated of the runs that selected
\* at least one candidate (the claim also covers those that selected none).
C2_WatermarkIsListingMax ==
    (RunOver /\ picked # <<>>) => Watermark(stateFile) = MaxNum(listing)

C4_ReportedExactlyOnce ==
    /\ \A n \in 1..MaxId : reports[n] <= 1
    /\ (RunOver /\ WatermarkMode) =>
          \A i \in DOMAIN results :
              Due(results[i]) => reports[results[i].memo_number] = 1

C6_FailedCandidateKept ==
    RunOver =>
        \A i \in DOMAIN picked :
            picked[i].details # None =>
                /\ pc = "done"
                /\ \E j \in DOMAIN df :
                      /\ df[j].memo_number = picked[i].memo_number
                      /\ df[j].title = picked[i].title
                      /\ df[j].url = picked[i].url
                      /\ "details" \in DOMAIN df[j]
                      /\ df[j].details # None

\* C7: when a run that selected candidates is over, its final record set
\* holds exactly the rows the enrichment kept, less, when the toggle is set,
\* those whose effective date is present and before today.
C7_PastEffectiveExclusion ==
    (RunOver /\ picked # <<>>) =>
        /\ pc = "done"
        /\ Ids(df) = {results[i].memo_number :
                         i \in {k \in DOMAIN results : Due(results[k])}}

HasTaxonomyKeyword(text) ==
    \E i \in DOMAIN EVENT_KEYWORDS : \E k \in DOMAIN EVENT_KEYWORDS[i].keys :
        Contains(EVENT_KEYWORDS[i].keys[k], text)

\* C8: "Notice of Reverse Stock Split - XYZ" classifies as "reverse split";
\* a subject "Tender Offer" under a title without keyword classifies as
\* "tender"; a text with no taxonomy keyword, without both words "reverse" and
\* "split", and with no "N for M" ratio classifies as absent.
C8_Classification ==
    pc = "ret" =>
        LET text == EventText(fn_in.title, fn_in.subject)
        IN /\ (fn_in.title = T_ReverseStockSplit /\ fn_in.subject = None)
                  => fn_out = Some("reverse split")
           /\ (fn_in.title = W_Adjustment /\ fn_in.subject = Some(W_TenderOffer))
                  => fn_out = Some("tender")
           /\ ( /\ ~HasTaxonomyKeyword(text)
                /\ ~(Contains(K_reverse, text) /\ Contains(K_split, text))
                /\ ~RatioPattern(text) )
                  => fn_out = None

\* the first link of the page with memo number n
FirstLink(links, n) ==
    links[SetMin({i \in DOMAIN links : links[i].number = Some(n)})]

\* C9: parse_search_listing returns entries in strictly descending order of
\* identifier (so no two share one), an entry for each identifier of the
\* page, and each entry carries the title, reference and dates of the first
\* link with its identifier in document order.
C9_UniqueDescendingFirst ==
    pc = "ret" =>
        /\ \A i, j \in DOMAIN fn_out :
              i < j => fn_out[i].memo_number > fn_out[j].memo_number
        /\ Ids(fn_out) = {n \in 1..MaxParseId :
                             \E i \in DOMAIN fn_in : fn_in[i].number = Some(n)}
        /\ \A i \in DOMAIN fn_out :
              LET a == FirstLink(fn_in, fn_out[i].memo_number)
              IN /\ fn_out[i].title = Strip(a.text)
                 /\ fn_out[i].url = a.href
                 /\ fn_out[i].post_date = ListingDates(a.back).post_date
                 /\ fn_out[i].effective_date = ListingDates(a.back).effective_date

\* a page with two links of one memo number that differ in title and dates,
\* and a link of another number, has been parsed
C9_Witness ==
    /\ pc = "ret"
    /\ Len(fn_out) >= 2
    /\ \E i, j \in DOMAIN fn_in :
          /\ i < j
          /\ fn_in[i].number # None /\ fn_in[i].number = fn_in[j].number
          /\ fn_in[i].text # fn_in[j].text
          /\ fn_in[i].back # fn_in[j].back

\* the first of the three rules whose pattern matches and whose date
\* normalizes
FirstUsableDate(text) ==
    LET tried == <<text.RE_EFFECTIVE_DATE_LINE, text.RE_DATE_FIELD,
                   text.RE_MARKET_OPEN_LINE>>
        usable == {i \in 1..3 : tried[i] # None /\ to_iso(tried[i][1]) # None}
    IN IF usable = {} THEN None ELSE to_iso(tried[SetMin(usable)][1])

\* C10: the effective date parse_pdf_fields extracts is that of the first rule,
\* in the order "Effective Date:" label, "Date:" field line, market-open
\* sentence, whose pattern matches and whose captured date normalizes; it is
\* absent only when no rule does.
C10_CascadeFallsThrough ==
    pc = "ret" => fn_out.effective_date = FirstUsableDate(fn_in)

====
